---- MODULE Spec2Model ----
(***************************************************************************)
(* BGP-4 UPDATE decode pipeline of bgp_monitor:                            *)
(*   UpdateMessage::try_decode   (core/src/update_message.rs)              *)
(*   IpAddrPrefix::decode_stream (core/src/update_message.rs)              *)
(*   PathAttribute::try_decode and the per-type value grammars             *)
(*                               (src/parse/attribute.rs)                  *)
(*   ErrorKind::with_bytes / as_err (core/src/lib.rs, src/parse/error.rs)  *)
(*                                                                         *)
(* A byte buffer (bytes::Bytes) is a sequence of numbers 0..255; reading   *)
(* from it removes bytes from its front.  The Buf getters get_u8, get_u16, *)
(* get_u32 panic when fewer bytes remain than they read; the model records *)
(* that outcome as the result tag "panic".                                 *)
(***************************************************************************)
EXTENDS Integers, Sequences, FiniteSets, TLC

VARIABLES
    input,            \* the buffer handed to UpdateMessage::try_decode
    data,             \* the caller's buffer (cursor), consumed from the front
    pc,               \* position inside UpdateMessage::try_decode
    withdrawn_data,   \* the withdrawn-routes sub-buffer
    attributes_data,  \* the attribute-block sub-buffer
    withdrawn_routes, \* decoded withdrawn prefixes
    path_attributes,  \* decoded path attributes
    nlri,             \* decoded NLRI prefixes
    stream_err,       \* decode_stream's error value, built at its entry
    c_data,           \* PathAttribute::try_decode's snapshot of its buffer
    flags,            \* flags of the attribute being decoded
    attr_type,        \* type of the attribute being decoded
    value_data,       \* the value slice handed to AttributeValue::try_decode
    value_res,        \* what AttributeValue::try_decode returned for it
    prefixes,         \* decode_stream's local vector of decoded prefixes
    iter_data,        \* history: the buffer at the start of the latest
                      \* iteration of decode_stream's loop
    attr_in,          \* history: the buffer at the entry of the latest
                      \* PathAttribute::try_decode call
    result,           \* outcome of UpdateMessage::try_decode
    ek,               \* the latest direct call of an ErrorKind constructor:
                      \* which one, on what kind, with what bytes
    ek_out            \* the Error that call returned

vars == <<input, data, pc, withdrawn_data, attributes_data, withdrawn_routes,
          path_attributes, nlri, stream_err, c_data, flags, attr_type,
          value_data, value_res, prefixes, iter_data, attr_in, result,
          ek, ek_out>>

----------------------------------------------------------------------------
(* Bounds of the input space.                                              *)

\* longest unstructured input buffer / attribute block
MaxRawLen == 4
\* longest prefix stream drawn from StreamBytes
MaxStreamLen == 3
\* longest attribute value drawn from ValueBytes
MaxShortLen == 2
\* longest attribute value cut from a repeating pattern
MaxValueLen == 12

----------------------------------------------------------------------------
(* Buffers.                                                                *)

\* Buf::advance / the bytes left after reading n
Advance(buf, n) == SubSeq(buf, n + 1, Len(buf))

\* Buf::copy_to_bytes(n): the first n bytes
Take(buf, n) == SubSeq(buf, 1, n)

\* Buf::get_u16: big-endian value of the first two bytes
U16(buf) == buf[1] * 256 + buf[2]

\* A u32 is kept as the pair <<high 16 bits, low 16 bits>>: its value is
\* u[1] * 65536 + u[2], which exceeds the model checker's integers.
\* Buf::get_u32: big-endian value of the first four bytes
U32(buf) == << buf[1] * 256 + buf[2], buf[3] * 256 + buf[4] >>

\* `x as u32` of a u16
U16AsU32(x) == << 0, x >>

\* Ipv4Addr::from_bits: the four octets of a u32, most significant first
Ipv4FromBits(n) ==
    << n[1] \div 256, n[1] % 256, n[2] \div 256, n[2] % 256 >>

RECURSIVE BitAndN(_, _, _)
BitAndN(a, b, n) ==
    IF n = 0 THEN 0
    ELSE (a % 2) * (b % 2) + 2 * BitAndN(a \div 2, b \div 2, n - 1)

\* u8 & u8
BitAnd(a, b) == BitAndN(a, b, 8)

\* u8 << k, truncated to 8 bits
Shl8(x, k) == (x * (2 ^ k)) % 256

----------------------------------------------------------------------------
(* ErrorModel.                                                             *)

None == [some |-> FALSE, bytes |-> << >>]
Some(bytes) == [some |-> TRUE, bytes |-> bytes]

ErrorKinds ==
    {"BadMessageLength", "MalformedAttributeList", "AttributeLengthErr",
     "InvalidOrigin", "MalformedAsPath", "OptionalAttributeError",
     "InvalidNetworkField", "Other"}

\* variant: InvalidOrigin is missing from the kinds that keep the bytes
with_bytes_no_origin(kind, bytes) ==
    [kind |-> kind,
     data |-> IF kind \in {"AttributeLengthErr", "MalformedAsPath",
                           "OptionalAttributeError"}
              THEN Some(bytes)
              ELSE None]

\* variant: InvalidNetworkField is among the kinds that keep the bytes
with_bytes_network(kind, bytes) ==
    [kind |-> kind,
     data |-> IF kind \in {"AttributeLengthErr", "MalformedAsPath",
                           "InvalidOrigin", "OptionalAttributeError",
                           "InvalidNetworkField"}
              THEN Some(bytes)
              ELSE None]

\* variant: the bytes are attached for every kind
with_bytes_always(kind, bytes) == [kind |-> kind, data |-> Some(bytes)]

\* ErrorKind::with_bytes
with_bytes(kind, bytes) ==
    [kind |-> kind,
     data |-> IF kind \in {"AttributeLengthErr", "MalformedAsPath",
                           "InvalidOrigin", "OptionalAttributeError"}
              THEN Some(bytes)
              ELSE None]

as_err(kind) == [kind |-> kind, data |-> None]

NoError == [kind |-> "", data |-> None]

\* The outcome of UpdateMessage::try_decode: still running ("none"),
\* Ok(UpdateMessage) ("ok"), Err(err) ("err"), or a panic in a Buf getter
\* ("panic").  `site` records the position at which the call ended.
Pending == [tag |-> "none", err |-> NoError, site |-> ""]
Succeeded == [tag |-> "ok", err |-> NoError, site |-> "nlri"]
Failed(e, site) == [tag |-> "err", err |-> e, site |-> site]
Panicked(site) == [tag |-> "panic", err |-> NoError, site |-> site]

----------------------------------------------------------------------------
(* PrefixCodec: IpAddrPrefix::decode_stream.                               *)

\* addr_len passed by both callers of decode_stream (IPv4)
AddrLen == 4

\* variant: the new element is put in front
Push_front(vec, x) == <<x>> \o vec

\* Vec::push
Push(vec, x) == Append(vec, x)

\* Vec::resize(n, 0): truncate to n elements or pad with zeros up to n
Resize(v, n) == [i \in 1..n |-> IF i <= Len(v) THEN v[i] ELSE 0]

\* variant: the loop gives up when a single byte is left
StreamFinished_one_left(buf) == Len(buf) <= 1

\* the loop condition of decode_stream: `while !data.is_empty()`
StreamFinished(buf) == buf = << >>

\* variant: the byte length rounded down
ByteLen_floor(bit_len) == bit_len \div 8

\* (bit_len as usize + 7) / 8
ByteLen(bit_len) == (bit_len + 7) \div 8

\* variant: the mask shifted by rem instead of 8 - rem
PrefixMask_shift_rem(rem) == Shl8(255, rem)

\* 0xff_u8 << (8 - rem)
PrefixMask(rem) == Shl8(255, 8 - rem)

\* the masking of the last copied byte
MaskLastByte(prefix_bytes, bit_len) ==
    LET byte_len == ByteLen(bit_len)
        rem == bit_len % 8
    IN  IF rem # 0 /\ byte_len - 1 < Len(prefix_bytes)
        THEN [prefix_bytes EXCEPT ![byte_len] = BitAnd(@, PrefixMask(rem))]
        ELSE prefix_bytes

\* the two rejections of a prefix entry, after its bit_len byte was read:
\* `rest` is the buffer behind the bit_len byte
PrefixRejected(bit_len, rest, addr_len) ==
    \/ Len(rest) < ByteLen(bit_len)
    \/ bit_len > (addr_len * 8) % 256

\* variant: the bit_len byte is looked at but not taken from the buffer
PrefixStep_peek(buf, addr_len) ==
    LET bit_len == buf[1]
        byte_len == ByteLen(bit_len)
    IN  IF PrefixRejected(bit_len, buf, addr_len)
        THEN [tag |-> "err", prefix |-> [length |-> 0, prefix |-> << >>],
              rest |-> buf]
        ELSE [tag |-> "ok",
              prefix |-> [length |-> bit_len,
                          prefix |-> MaskLastByte(
                                         Resize(Take(buf, byte_len), addr_len),
                                         bit_len)],
              rest |-> Advance(buf, byte_len)]

\* One iteration of decode_stream's loop over a non-empty buffer.
\* tag "err" stands for `return Err(invalid_network_field_err)`.
PrefixStep(buf, addr_len) ==
    IF Len(buf) < 1
    THEN [tag |-> "err", prefix |-> [length |-> 0, prefix |-> << >>], rest |-> buf]
    ELSE LET bit_len == buf[1]
             rest == Advance(buf, 1)
             byte_len == ByteLen(bit_len)
         IN  IF PrefixRejected(bit_len, rest, addr_len)
             THEN [tag |-> "err", prefix |-> [length |-> 0, prefix |-> << >>],
                   rest |-> rest]
             ELSE [tag |-> "ok",
                   prefix |-> [length |-> bit_len,
                               prefix |-> MaskLastByte(
                                              Resize(Take(rest, byte_len), addr_len),
                                              bit_len)],
                   rest |-> Advance(rest, byte_len)]

----------------------------------------------------------------------------
(* AttributeCodec: the per-type value grammars.                            *)

\* impl From<u8> for AttributeType
AttributeTypeFrom(value) ==
    CASE value = 1 -> [name |-> "Origin", code |-> value]
      [] value = 2 -> [name |-> "AsPath", code |-> value]
      [] value = 3 -> [name |-> "NextHop", code |-> value]
      [] value = 4 -> [name |-> "MultiExitDisc", code |-> value]
      [] value = 5 -> [name |-> "LocalPref", code |-> value]
      [] value = 6 -> [name |-> "AtomicAggregate", code |-> value]
      [] value = 7 -> [name |-> "Aggregator", code |-> value]
      [] value = 8 -> [name |-> "Communities", code |-> value]
      [] OTHER -> [name |-> "Unknown", code |-> value]

\* the flag bits of the flags byte
ParseFlags(flags_byte) ==
    [optional |-> BitAnd(flags_byte, 128) # 0,
     transitive |-> BitAnd(flags_byte, 64) # 0,
     partial |-> BitAnd(flags_byte, 32) # 0,
     extended_length |-> BitAnd(flags_byte, 16) # 0]

NoValue == [variant |-> "none"]

\* outcomes of a value grammar: Ok(value) with the slice left at `rest`,
\* Err(kind), or a panic inside a Buf getter
GOk(value, rest) == [tag |-> "ok", kind |-> "", value |-> value, rest |-> rest]
GErr(kind, rest) == [tag |-> "err", kind |-> kind, value |-> NoValue, rest |-> rest]
GPanic(rest) == [tag |-> "panic", kind |-> "", value |-> NoValue, rest |-> rest]

\* Origin::try_decode
Origin_try_decode(d) ==
    IF Len(d) < 1 THEN GPanic(d)
    ELSE LET origin_val == d[1]
             rest == Advance(d, 1)
         IN  CASE origin_val = 0 ->
                    GOk([variant |-> "Origin", origin_type |-> "Igp"], rest)
               [] origin_val = 1 ->
                    GOk([variant |-> "Origin", origin_type |-> "Egp"], rest)
               [] origin_val = 2 ->
                    GOk([variant |-> "Origin", origin_type |-> "Incomplete"], rest)
               [] OTHER -> GErr("InvalidOrigin", rest)

\* the `count` ASNs of a segment: get_u32 repeated
ReadAsns(d, count) == [i \in 1..count |-> U32(SubSeq(d, 4 * i - 3, 4 * i))]

\* one iteration of the segment loop of AsPath::try_decode over a
\* non-empty slice: the outcome, the segment and the slice behind it
AsPath_segment(d) ==
    LET seg_type_val == d[1]
        d1 == Advance(d, 1)
        none == [segment_type |-> "", asns |-> << >>]
    IN  IF seg_type_val \notin {1, 2}
        THEN [tag |-> "err", segment |-> none, rest |-> d1]
        ELSE IF Len(d1) < 1
        THEN [tag |-> "panic", segment |-> none, rest |-> d1]
        ELSE LET count == d1[1]
                 d2 == Advance(d1, 1)
                 asn_byte_len == count * 4
             IN  IF Len(d2) < asn_byte_len
                 THEN [tag |-> "err", segment |-> none, rest |-> d2]
                 ELSE [tag |-> "ok",
                       segment |-> [segment_type |->
                                        IF seg_type_val = 1 THEN "AsSet"
                                                            ELSE "AsSequence",
                                    asns |-> ReadAsns(d2, count)],
                       rest |-> Advance(d2, asn_byte_len)]

\* AsPath::try_decode: the segment loop, `segments` decoded so far
RECURSIVE AsPath_loop(_, _)
AsPath_loop(d, segments) ==
    IF d = << >>
    THEN GOk([variant |-> "AsPath", segments |-> segments], d)
    ELSE LET s == AsPath_segment(d)
         IN  CASE s.tag = "ok" ->
                    AsPath_loop(s.rest, Append(segments, s.segment))
               [] s.tag = "err" -> GErr("MalformedAsPath", s.rest)
               [] OTHER -> GPanic(s.rest)

AsPath_try_decode(d) == AsPath_loop(d, << >>)

\* NextHop::try_decode
NextHop_try_decode(d) ==
    IF Len(d) < 4 THEN GErr("AttributeLengthErr", d)
    ELSE GOk([variant |-> "NextHop", ip |-> Ipv4FromBits(U32(d))], Advance(d, 4))

\* variant: the length test of NextHop and LocalPref used for MultiExitDisc
MultiExitDisc_try_decode_lenient(d) ==
    IF Len(d) < 4 THEN GErr("AttributeLengthErr", d)
    ELSE GOk([variant |-> "MultiExitDisc", med |-> U32(d)], Advance(d, 4))

\* MultiExitDisc::try_decode
MultiExitDisc_try_decode(d) ==
    IF Len(d) # 4 THEN GErr("AttributeLengthErr", d)
    ELSE GOk([variant |-> "MultiExitDisc", med |-> U32(d)], Advance(d, 4))

\* LocalPref::try_decode
LocalPref_try_decode(d) ==
    IF Len(d) < 4 THEN GErr("AttributeLengthErr", d)
    ELSE GOk([variant |-> "LocalPref", pref |-> U32(d)], Advance(d, 4))

\* variant: a 4-byte ASN is read for the 6-byte form too
Aggregator_try_decode_always_u32(d) ==
    IF Len(d) \notin {8, 6} THEN GErr("AttributeLengthErr", d)
    ELSE LET d1 == Advance(d, 4)
         IN  IF Len(d1) < 4 THEN GPanic(d1)
             ELSE GOk([variant |-> "Aggregator", asn |-> U32(d),
                       ip |-> Ipv4FromBits(U32(d1))],
                      Advance(d1, 4))

\* Aggregator::try_decode
Aggregator_try_decode(d) ==
    IF Len(d) \notin {8, 6} THEN GErr("AttributeLengthErr", d)
    ELSE LET asn == IF Len(d) = 8 THEN U32(d) ELSE U16AsU32(U16(d))
             d1 == IF Len(d) = 8 THEN Advance(d, 4) ELSE Advance(d, 2)
         IN  IF Len(d1) < 4 THEN GPanic(d1)
             ELSE GOk([variant |-> "Aggregator", asn |-> asn,
                       ip |-> Ipv4FromBits(U32(d1))],
                      Advance(d1, 4))

\* one iteration of the loop of Communities::try_decode over a non-empty
\* slice: get_u16 twice
Communities_step(d) ==
    LET none == [asn |-> 0, value |-> 0]
    IN  IF Len(d) < 2 THEN [tag |-> "panic", community |-> none, rest |-> d]
        ELSE LET d1 == Advance(d, 2)
             IN  IF Len(d1) < 2
                 THEN [tag |-> "panic", community |-> none, rest |-> d1]
                 ELSE [tag |-> "ok",
                       community |-> [asn |-> U16(d), value |-> U16(d1)],
                       rest |-> Advance(d1, 2)]

\* Communities::try_decode: the loop, `communities` decoded so far
RECURSIVE Communities_loop(_, _)
Communities_loop(d, communities) ==
    IF d = << >>
    THEN GOk([variant |-> "Communities", communities |-> communities], d)
    ELSE LET s == Communities_step(d)
         IN  IF s.tag = "ok"
             THEN Communities_loop(s.rest, Append(communities, s.community))
             ELSE GPanic(s.rest)

\* variant: the alignment test is missing
Communities_try_decode_unchecked(d) == Communities_loop(d, << >>)

\* Communities::try_decode
Communities_try_decode(d) ==
    IF Len(d) % 4 # 0 THEN GErr("OptionalAttributeError", d)
    ELSE Communities_loop(d, << >>)

\* the AtomicAggregate arm of AttributeValue::try_decode
AtomicAggregate_decode(d) ==
    IF Len(d) > 0 THEN GErr("AttributeLengthErr", d)
    ELSE GOk([variant |-> "AtomicAggregate"], d)

\* variant: an unknown attribute type is rejected
Unknown_decode_strict(d) == GErr("OptionalAttributeError", d)

\* the fall-through arm of AttributeValue::try_decode
Unknown_decode(d) == GOk([variant |-> "Unknown", bytes |-> d], d)

\* AttributeValue::try_decode: dispatch on the attribute type
AttributeValue_try_decode(type_code, d) ==
    CASE type_code.name = "Origin" -> Origin_try_decode(d)
      [] type_code.name = "AsPath" -> AsPath_try_decode(d)
      [] type_code.name = "NextHop" -> NextHop_try_decode(d)
      [] type_code.name = "MultiExitDisc" -> MultiExitDisc_try_decode(d)
      [] type_code.name = "LocalPref" -> LocalPref_try_decode(d)
      [] type_code.name = "AtomicAggregate" -> AtomicAggregate_decode(d)
      [] type_code.name = "Aggregator" -> Aggregator_try_decode(d)
      [] type_code.name = "Communities" -> Communities_try_decode(d)
      [] OTHER -> Unknown_decode(d)

----------------------------------------------------------------------------
(* AttributeCodec: PathAttribute::try_decode up to the value slice.        *)

NoFlags ==
    [optional |-> FALSE, transitive |-> FALSE, partial |-> FALSE,
     extended_length |-> FALSE]

NoType == [name |-> "", code |-> 0]

HeaderOut(snap, tag, err, fl, ty, value, rest) ==
    [c_data |-> snap, tag |-> tag, err |-> err, flags |-> fl, attr_type |-> ty,
     value_data |-> value, rest |-> rest]

\* width of the length field
LengthFieldSize(fl) == IF fl.extended_length THEN 2 ELSE 1

\* the declared length, read from a buffer that holds the length field
ReadLength(fl, buf) == IF fl.extended_length THEN U16(buf) ELSE buf[1]

\* variant: the snapshot taken after the flags byte was read
Snapshot_after_flags(buf) == Advance(buf, 1)

\* `data.clone().to_owned()`: the snapshot of the buffer for diagnostics
Snapshot(buf) == buf

\* flags byte, type byte, length field and the copy of the value slice
PathAttribute_header(buf) ==
    LET snap == Snapshot(buf)
    IN
    IF Len(buf) < 1
    THEN HeaderOut(snap, "panic", NoError, NoFlags, NoType, << >>, buf)
    ELSE
    LET fl == ParseFlags(buf[1])
        b1 == Advance(buf, 1)
    IN
    IF Len(b1) < 1
    THEN HeaderOut(snap, "panic", NoError, fl, NoType, << >>, b1)
    ELSE
    LET ty == AttributeTypeFrom(b1[1])
        b2 == Advance(b1, 1)
    IN
    IF Len(b2) < LengthFieldSize(fl)
    THEN HeaderOut(snap, "err", with_bytes("AttributeLengthErr", snap), fl, ty, << >>, b2)
    ELSE
    LET length == ReadLength(fl, b2)
        b3 == Advance(b2, LengthFieldSize(fl))
    IN
    IF Len(b3) < length
    THEN HeaderOut(snap, "err", with_bytes("AttributeLengthErr", snap), fl, ty, << >>, b3)
    ELSE HeaderOut(snap, "ok", NoError, fl, ty, Take(b3, length), Advance(b3, length))

----------------------------------------------------------------------------
(* The input buffers the model decodes.                                    *)

SeqsUpTo(S, n) == UNION {[1..k -> S] : k \in 0..n}

\* n bytes of the pattern c, repeated
Cyc(c, n) == [i \in 1..n |-> c[((i - 1) % Len(c)) + 1]]

U16Bytes(n) == << n \div 256, n % 256 >>

\* bytes of unstructured buffers: 80 = 0x50 sets extended_length
RawBytes == {0, 1, 2, 80}

\* bytes of prefix streams: bit lengths 0, 3, 9 and 255, address bytes with
\* low bits set
StreamBytes == {0, 3, 9, 255}

FixedStreams ==
    { <<8, 10, 16, 192, 168>>, <<16, 172, 16>>, <<16, 192, 168>>,
      <<32, 255, 255, 255, 255>>, <<33, 255, 255, 255, 255, 255>>,
      <<17, 255, 255, 255>>, <<25, 255, 255, 255, 255>>,
      <<31, 255, 255, 255, 255, 1, 255>> }

Streams == SeqsUpTo(StreamBytes, MaxStreamLen) \cup FixedStreams

FewStreams ==
    { << >>, <<8, 10, 16, 192, 168>>, <<16, 172, 16>>, <<3, 255>>,
      <<9, 255>>, <<33, 255, 255, 255, 255, 255>> }

\* bytes of short attribute values
ValueBytes == {0, 1, 2, 3}

\* repeating patterns of longer attribute values: AS_PATH segments,
\* communities, an aggregator
ValueCycles ==
    { <<2, 1, 0, 1, 0, 1>>, <<1, 0, 2, 1, 0, 0, 0, 9>>,
      <<255, 255, 255, 1, 255, 255, 255, 2>>,
      <<0, 1, 0, 1, 10, 20, 30, 40>>, <<192, 168, 1, 1, 0, 0, 0, 100>> }

ValueSlices ==
    SeqsUpTo(ValueBytes, MaxShortLen)
        \cup {Cyc(c, n) : c \in ValueCycles, n \in 0..MaxValueLen}

\* 0x40 (transitive) and 0x50 (transitive, extended length)
FlagBytes == {64, 80}

\* the eight known type codes and three unknown ones
TypeBytes == (0..9) \cup {153}

\* a TLV record with flags byte f, type byte t, declared length n, value v
TLV(f, t, n, v) ==
    <<f, t>> \o (IF BitAnd(f, 16) # 0 THEN U16Bytes(n) ELSE <<n % 256>>) \o v

\* records whose declared length is their value's length, or one more
TLVs ==
    {TLV(f, t, Len(v) + d, v) :
        f \in FlagBytes, t \in TypeBytes, v \in ValueSlices, d \in {0, 1}}

FewTLVs ==
    { TLV(64, 1, 1, <<0>>), TLV(80, 153, 2, <<7, 7>>),
      TLV(192, 8, 4, <<255, 255, 255, 1>>), TLV(224, 6, 0, << >>),
      TLV(128, 4, 4, <<0, 0, 0, 100>>), <<64, 1>>, <<64>> }

\* ORIGIN, AS_PATH, NEXT_HOP, LOCAL_PREF of test_full_update_message
FullTestAttrs ==
    TLV(64, 1, 1, <<0>>) \o TLV(64, 2, 6, <<2, 1, 0, 1, 0, 1>>)
        \o TLV(64, 3, 4, <<1, 2, 3, 4>>) \o TLV(64, 5, 4, <<0, 0, 0, 100>>)

FewBlocks == {a \o b : a \in FewTLVs, b \in FewTLVs} \cup {FullTestAttrs}

AttrBlocks == TLVs \cup FewBlocks \cup SeqsUpTo(RawBytes, MaxRawLen)

\* an UPDATE body with withdrawn block w, attribute block a and NLRI n
Upd(w, a, n) == U16Bytes(Len(w)) \o w \o U16Bytes(Len(a)) \o a \o n

\* UPDATE bodies cut off after any number of bytes
TruncatedInputs ==
    UNION {{Take(Upd(w, a, << >>), k) : k \in 0..Len(Upd(w, a, << >>))} :
              w \in FewStreams, a \in FewTLVs}

UpdateInputs ==
    SeqsUpTo(RawBytes, MaxRawLen)
        \cup TruncatedInputs
        \cup {Upd(w, << >>, << >>) : w \in Streams}
        \cup {Upd(<< >>, << >>, n) : n \in Streams}
        \cup {Upd(<< >>, a, << >>) : a \in AttrBlocks}
        \cup {Upd(w, a, n) : w \in FewStreams, a \in FewBlocks, n \in FewStreams}

----------------------------------------------------------------------------
(* UpdateMessage::try_decode as a state machine.                           *)

NoValueRes == [tag |-> "none", kind |-> "", value |-> NoValue, rest |-> << >>]

\* no ErrorKind constructor has been called directly
NoCall == [op |-> "none", kind |-> "", bytes |-> << >>]

Init ==
    /\ input \in UpdateInputs
    /\ data = input
    /\ pc = "start"
    /\ withdrawn_data = << >>
    /\ attributes_data = << >>
    /\ withdrawn_routes = << >>
    /\ path_attributes = << >>
    /\ nlri = << >>
    /\ stream_err = NoError
    /\ c_data = << >>
    /\ flags = NoFlags
    /\ attr_type = NoType
    /\ value_data = << >>
    /\ value_res = NoValueRes
    /\ prefixes = << >>
    /\ iter_data = << >>
    /\ attr_in = << >>
    /\ result = Pending
    /\ ek = NoCall
    /\ ek_out = NoError

\* the call ends with Err(e) or a panic
Finish(r) ==
    /\ result' = r
    /\ pc' = "done"

\* entry, withdrawn_len, the withdrawn sub-buffer and the entry of its
\* decode_stream call
UpdateStart ==
    /\ pc = "start"
    /\ UNCHANGED <<ek, ek_out, attr_in, input, attributes_data, path_attributes, nlri, c_data, flags,
                   attr_type, value_data, value_res, iter_data, prefixes>>
    /\ IF Len(data) < 2
       THEN /\ Finish(Failed(with_bytes("BadMessageLength", data), "start"))
            /\ UNCHANGED <<data, withdrawn_data, withdrawn_routes, stream_err>>
       ELSE LET withdrawn_len == U16(data)
                d1 == Advance(data, 2)
            IN  IF withdrawn_len # 0
                THEN IF Len(d1) < withdrawn_len
                     THEN /\ Finish(Failed(as_err("MalformedAttributeList"),
                                           "start"))
                          /\ data' = d1
                          /\ UNCHANGED <<withdrawn_data, withdrawn_routes,
                                         stream_err>>
                     ELSE /\ withdrawn_data' = Take(d1, withdrawn_len)
                          /\ data' = Advance(d1, withdrawn_len)
                          /\ stream_err' =
                                 with_bytes("InvalidNetworkField",
                                            Take(d1, withdrawn_len))
                          /\ pc' = "withdrawn"
                          /\ UNCHANGED <<withdrawn_routes, result>>
                ELSE /\ data' = d1
                     /\ withdrawn_routes' = << >>
                     /\ pc' = "attrs_len"
                     /\ UNCHANGED <<withdrawn_data, stream_err, result>>

\* one iteration of decode_stream's loop over the withdrawn sub-buffer
WithdrawnPrefix ==
    /\ pc = "withdrawn"
    /\ ~StreamFinished(withdrawn_data)
    /\ LET step == PrefixStep(withdrawn_data, AddrLen)
       IN  /\ iter_data' = withdrawn_data
           /\ withdrawn_data' = step.rest
           /\ IF step.tag = "ok"
              THEN /\ prefixes' = Push(prefixes, step.prefix)
                   /\ UNCHANGED <<pc, result>>
              ELSE /\ Finish(Failed(stream_err, "withdrawn"))
                   /\ UNCHANGED prefixes
    /\ UNCHANGED <<ek, ek_out, attr_in, input, data, attributes_data, withdrawn_routes,
                   path_attributes, nlri, stream_err, c_data, flags, attr_type,
                   value_data, value_res>>

\* decode_stream returns Ok(prefixes) for the withdrawn sub-buffer
WithdrawnDone ==
    /\ pc = "withdrawn"
    /\ StreamFinished(withdrawn_data)
    /\ withdrawn_routes' = prefixes
    /\ prefixes' = << >>
    /\ pc' = "attrs_len"
    /\ UNCHANGED <<ek, ek_out, attr_in, input, data, withdrawn_data, attributes_data,
                   path_attributes, nlri, stream_err, c_data, flags, attr_type,
                   value_data, value_res, iter_data, result>>

\* attributes_len and the attribute sub-buffer
AttrsLen ==
    /\ pc = "attrs_len"
    /\ UNCHANGED <<ek, ek_out, attr_in, input, withdrawn_data, withdrawn_routes, nlri, stream_err,
                   c_data, flags, attr_type, value_data, value_res, prefixes,
                   iter_data>>
    /\ IF Len(data) < 2
       THEN /\ Finish(Failed(as_err("MalformedAttributeList"), "attrs_len"))
            /\ UNCHANGED <<data, attributes_data, path_attributes>>
       ELSE LET attributes_len == U16(data)
                d1 == Advance(data, 2)
            IN  IF Len(d1) < attributes_len
                THEN /\ Finish(Failed(as_err("MalformedAttributeList"),
                                      "attrs_len"))
                     /\ data' = d1
                     /\ UNCHANGED <<attributes_data, path_attributes>>
                ELSE /\ attributes_data' = Take(d1, attributes_len)
                     /\ data' = Advance(d1, attributes_len)
                     /\ path_attributes' = << >>
                     /\ pc' = "attrs"
                     /\ UNCHANGED result

\* variant: every grammar failure is reported as AttributeLengthErr
Rewrap_as_length_err(kind, snap) == with_bytes("AttributeLengthErr", snap)

\* `.map_err(|err: ErrorKind| err.with_bytes(c_data))`
Rewrap(kind, snap) == with_bytes(kind, snap)

\* PathAttribute::try_decode on the attribute sub-buffer, up to the copy
\* of the value slice
AttrHeader ==
    /\ pc = "attrs"
    /\ attributes_data # << >>
    /\ LET h == PathAttribute_header(attributes_data)
       IN  /\ attr_in' = attributes_data
           /\ c_data' = h.c_data
           /\ attributes_data' = h.rest
           /\ flags' = h.flags
           /\ attr_type' = h.attr_type
           /\ value_data' = h.value_data
           /\ value_res' = NoValueRes
           /\ CASE h.tag = "ok" -> /\ pc' = "value"
                                   /\ UNCHANGED result
                [] h.tag = "err" -> Finish(Failed(h.err, "attrs"))
                [] OTHER -> Finish(Panicked("attrs"))
    /\ UNCHANGED <<ek, ek_out, input, data, withdrawn_data, withdrawn_routes,
                   path_attributes, nlri, stream_err, prefixes, iter_data>>

\* AttributeValue::try_decode on the value slice, the rewrapping of its
\* error, and the push of the decoded attribute
AttrValue ==
    /\ pc = "value"
    /\ LET r == AttributeValue_try_decode(attr_type, value_data)
       IN  /\ value_res' = r
           /\ CASE r.tag = "ok" ->
                     /\ path_attributes' =
                            Push(path_attributes,
                                   [flags |-> flags, type_code |-> attr_type,
                                    value |-> r.value])
                     /\ pc' = "attrs"
                     /\ UNCHANGED result
                [] r.tag = "err" ->
                     /\ Finish(Failed(Rewrap(r.kind, c_data), "value"))
                     /\ UNCHANGED path_attributes
                [] OTHER ->
                     /\ Finish(Panicked("value"))
                     /\ UNCHANGED path_attributes
    /\ UNCHANGED <<ek, ek_out, attr_in, input, data, withdrawn_data, attributes_data,
                   withdrawn_routes, nlri, stream_err, c_data, flags, attr_type,
                   value_data, prefixes, iter_data>>

\* the attribute loop ends; decode_stream is entered for the NLRI
AttrsDone ==
    /\ pc = "attrs"
    /\ attributes_data = << >>
    /\ stream_err' = with_bytes("InvalidNetworkField", data)
    /\ prefixes' = << >>
    /\ pc' = "nlri"
    /\ UNCHANGED <<ek, ek_out, attr_in, input, data, withdrawn_data, attributes_data,
                   withdrawn_routes, path_attributes, nlri, c_data, flags,
                   attr_type, value_data, value_res, iter_data, result>>

\* one iteration of decode_stream's loop over the caller's buffer
NlriPrefix ==
    /\ pc = "nlri"
    /\ ~StreamFinished(data)
    /\ LET step == PrefixStep(data, AddrLen)
       IN  /\ iter_data' = data
           /\ data' = step.rest
           /\ IF step.tag = "ok"
              THEN /\ prefixes' = Push(prefixes, step.prefix)
                   /\ UNCHANGED <<pc, result>>
              ELSE /\ Finish(Failed(stream_err, "nlri"))
                   /\ UNCHANGED prefixes
    /\ UNCHANGED <<ek, ek_out, attr_in, input, withdrawn_data, attributes_data, withdrawn_routes,
                   path_attributes, nlri, stream_err, c_data, flags, attr_type,
                   value_data, value_res>>

\* decode_stream returns Ok(prefixes) for the NLRI; Ok(UpdateMessage)
NlriDone ==
    /\ pc = "nlri"
    /\ StreamFinished(data)
    /\ nlri' = prefixes
    /\ prefixes' = << >>
    /\ result' = Succeeded
    /\ pc' = "done"
    /\ UNCHANGED <<ek, ek_out, attr_in, input, data, withdrawn_data, attributes_data,
                   withdrawn_routes, path_attributes, stream_err, c_data, flags,
                   attr_type, value_data, value_res, iter_data>>

Next ==
    \/ UpdateStart
    \/ WithdrawnPrefix
    \/ WithdrawnDone
    \/ AttrsLen
    \/ AttrHeader
    \/ AttrValue
    \/ AttrsDone
    \/ NlriPrefix
    \/ NlriDone

Spec == Init /\ [][Next]_vars

----------------------------------------------------------------------------
(* ErrorModel on its own: ErrorKind::with_bytes and ErrorKind::as_err      *)
(* called with every kind and a buffer.                                    *)

InitErr ==
    /\ input \in SeqsUpTo(RawBytes, MaxRawLen)
    /\ data = input
    /\ pc = "error_model"
    /\ withdrawn_data = << >>
    /\ attributes_data = << >>
    /\ withdrawn_routes = << >>
    /\ path_attributes = << >>
    /\ nlri = << >>
    /\ stream_err = NoError
    /\ c_data = << >>
    /\ flags = NoFlags
    /\ attr_type = NoType
    /\ value_data = << >>
    /\ value_res = NoValueRes
    /\ prefixes = << >>
    /\ iter_data = << >>
    /\ attr_in = << >>
    /\ result = Pending
    /\ ek = NoCall
    /\ ek_out = NoError

\* kind.with_bytes(input)
CallWithBytes ==
    /\ pc = "error_model"
    /\ ek.op = "none"
    /\ \E kind \in ErrorKinds :
           /\ ek' = [op |-> "with_bytes", kind |-> kind, bytes |-> input]
           /\ ek_out' = with_bytes(kind, input)
    /\ UNCHANGED <<input, data, pc, withdrawn_data, attributes_data,
                   withdrawn_routes, path_attributes, nlri, stream_err, c_data,
                   flags, attr_type, value_data, value_res, prefixes,
                   iter_data, attr_in, result>>

\* kind.as_err()
CallAsErr ==
    /\ pc = "error_model"
    /\ ek.op = "none"
    /\ \E kind \in ErrorKinds :
           /\ ek' = [op |-> "as_err", kind |-> kind, bytes |-> input]
           /\ ek_out' = as_err(kind)
    /\ UNCHANGED <<input, data, pc, withdrawn_data, attributes_data,
                   withdrawn_routes, path_attributes, nlri, stream_err, c_data,
                   flags, attr_type, value_data, value_res, prefixes,
                   iter_data, attr_in, result>>

NextErr ==
    \/ CallWithBytes
    \/ CallAsErr

SpecErr == InitErr /\ [][NextErr]_vars

----------------------------------------------------------------------------
(* The decoder is straight-line synchronous code: a step that can be taken *)
(* is taken.                                                               *)

FairSpec == Spec /\ WF_vars(Next)

----------------------------------------------------------------------------
(* Properties.                                                             *)

\* bit `pos` (0 = most significant bit of the first byte) of a byte string
BitAt(bytes, pos) == (bytes[(pos \div 8) + 1] \div (2 ^ (7 - (pos % 8)))) % 2

\* the last element of a non-empty sequence
Last(q) == q[Len(q)]

\* big-endian value of bytes a, b
BE16(a, b) == a * 256 + b

\* PathAttribute::try_decode has been called (attr_in is its buffer)
AttrCalled == attr_in # << >>

\* the TLV at the front of attr_in, read off the wire layout
\* [u8 flags][u8 type][u8 or u16 length][value]
InExtended == (attr_in[1] \div 16) % 2 = 1
InLenSize == IF InExtended THEN 2 ELSE 1
InLenUnreadable == Len(attr_in) < 2 + InLenSize
InDeclared ==
    IF InExtended THEN BE16(attr_in[3], attr_in[4]) ELSE attr_in[3]
InOverrun == ~InLenUnreadable /\ InDeclared > Len(attr_in) - 2 - InLenSize
InFits == ~InLenUnreadable /\ InDeclared <= Len(attr_in) - 2 - InLenSize
InValue == SubSeq(attr_in, 3 + InLenSize, 2 + InLenSize + InDeclared)

\* AttributeValue::try_decode has returned (or panicked) for value_data
\* of an attribute of type `name`
ValueDecoded(name) == value_res.tag # "none" /\ attr_type.name = name

ValueOk == value_res.tag = "ok"
ValueErr(kind) == value_res.tag = "err" /\ value_res.kind = kind

\* C1: for every input buffer no read is attempted with fewer bytes
\* remaining than it takes, so UpdateMessage::try_decode always ends by
\* returning Ok(UpdateMessage) or exactly one Err, never by aborting.
C1_NeverAborts ==
    /\ result.tag # "panic"
    /\ pc = "done" => result.tag \in {"ok", "err"}

\* the prefixes a decode_stream call has emitted so far or returned
EmittedPrefixes ==
    {prefixes[i] : i \in 1..Len(prefixes)}
        \cup {withdrawn_routes[i] : i \in 1..Len(withdrawn_routes)}
        \cup {nlri[i] : i \in 1..Len(nlri)}

\* C2: every prefix emitted by decode_stream has an address of exactly
\* addr_len bytes in which every bit at position >= bit_length is 0.
C2_PrefixMasked ==
    \A p \in EmittedPrefixes :
        /\ Len(p.prefix) = AddrLen
        /\ p.length <= AddrLen * 8
        /\ \A pos \in p.length..(AddrLen * 8 - 1) : BitAt(p.prefix, pos) = 0

\* a prefix of a partial bit length was emitted whose last wire byte had
\* unused low bits set, and the masking cleared them
C2_Witness ==
    /\ pc \in {"withdrawn", "nlri"}
    /\ prefixes # << >>
    /\ Last(prefixes).length = iter_data[1]
    /\ iter_data[1] % 8 # 0
    /\ iter_data[1 + ByteLen(iter_data[1])]
           # Last(prefixes).prefix[ByteLen(iter_data[1])]

\* the entry at the front of iter_data does not fit: its byte length
\* ceil(bit_length / 8) exceeds the bytes behind it, or bit_length > 32
IterEntryBad ==
    \/ (iter_data[1] + 7) \div 8 > Len(iter_data) - 1
    \/ iter_data[1] > 32

\* C3: decode_stream either returns success with its buffer consumed to
\* zero remaining bytes, or returns InvalidNetworkField (a prefix's byte
\* length exceeds the remaining bytes, or bit_length > addr_len * 8); it
\* never returns success with undecoded bytes left.
C3_StreamTotal ==
    /\ (pc \notin {"start", "withdrawn"} /\ result.site # "withdrawn")
           => withdrawn_data = << >>
    /\ result.tag = "ok" => data = << >>
    /\ (result.tag \in {"err", "panic"} /\ result.site \in {"withdrawn", "nlri"})
           => /\ result.tag = "err"
              /\ result.err.kind = "InvalidNetworkField"
              /\ IterEntryBad
    /\ (pc \in {"withdrawn", "nlri"} /\ prefixes # << >>) => ~IterEntryBad

\* decode_stream decoded at least one prefix of the NLRI and then failed
\* on a later entry
C3_Witness ==
    /\ result.tag = "err"
    /\ result.site = "nlri"
    /\ prefixes # << >>
    /\ Len(iter_data) < Len(input)

C5_OriginExact ==
    ValueDecoded("Origin")
        => IF Len(value_data) = 1 /\ value_data[1] \in {0, 1, 2}
           THEN /\ ValueOk
                /\ value_res.value.origin_type =
                       CASE value_data[1] = 0 -> "Igp"
                         [] value_data[1] = 1 -> "Egp"
                         [] OTHER -> "Incomplete"
           ELSE ValueErr("InvalidOrigin")

\* the wire encoding of a u32 and of a sequence of AS_PATH segments
EncodeU32(u) == << u[1] \div 256, u[1] % 256, u[2] \div 256, u[2] % 256 >>

RECURSIVE EncodeAsns(_)
EncodeAsns(asns) ==
    IF asns = << >> THEN << >>
    ELSE EncodeU32(Head(asns)) \o EncodeAsns(Tail(asns))

RECURSIVE EncodeSegments(_)
EncodeSegments(segments) ==
    IF segments = << >> THEN << >>
    ELSE LET seg == Head(segments)
         IN  << IF seg.segment_type = "AsSet" THEN 1 ELSE 2, Len(seg.asns) >>
                 \o EncodeAsns(seg.asns) \o EncodeSegments(Tail(segments))

\* C6: AsPath::try_decode either returns the segments whose encodings
\* exactly tile the slice, or returns MalformedAsPath (also for a slice
\* that ends after a segment-type byte).
C6_AsPathTotal ==
    ValueDecoded("AsPath")
        => \/ /\ ValueOk
              /\ EncodeSegments(value_res.value.segments) = value_data
           \/ ValueErr("MalformedAsPath")

\* C7: MultiExitDisc succeeds iff the slice is exactly 4 bytes,
\* AtomicAggregate iff exactly 0 bytes, NextHop and LocalPref iff at least
\* 4 bytes (value from the first 4 bytes, big-endian, the rest ignored);
\* every rejected length yields AttributeLengthErr.
C7_FixedWidthLengths ==
    /\ ValueDecoded("MultiExitDisc")
           => IF Len(value_data) = 4
              THEN /\ ValueOk
                   /\ value_res.value.med =
                          << BE16(value_data[1], value_data[2]),
                             BE16(value_data[3], value_data[4]) >>
              ELSE ValueErr("AttributeLengthErr")
    /\ ValueDecoded("AtomicAggregate")
           => IF Len(value_data) = 0
              THEN ValueOk /\ value_res.value.variant = "AtomicAggregate"
              ELSE ValueErr("AttributeLengthErr")
    /\ ValueDecoded("NextHop")
           => IF Len(value_data) >= 4
              THEN /\ ValueOk
                   /\ value_res.value.ip = SubSeq(value_data, 1, 4)
              ELSE ValueErr("AttributeLengthErr")
    /\ ValueDecoded("LocalPref")
           => IF Len(value_data) >= 4
              THEN /\ ValueOk
                   /\ value_res.value.pref =
                          << BE16(value_data[1], value_data[2]),
                             BE16(value_data[3], value_data[4]) >>
              ELSE ValueErr("AttributeLengthErr")

\* a NextHop value longer than 4 bytes was accepted, its trailing bytes
\* ignored
C7_Witness ==
    /\ ValueDecoded("NextHop")
    /\ Len(value_data) > 4
    /\ ValueOk
    /\ value_res.value.ip = SubSeq(value_data, 1, 4)

\* C8: an Aggregator of exactly 8 bytes decodes to a 4-byte ASN plus an
\* IPv4 address, of exactly 6 bytes to a 2-byte ASN widened to u32 plus an
\* IPv4 address; any other length yields AttributeLengthErr.
C8_AggregatorLengths ==
    ValueDecoded("Aggregator")
        => CASE Len(value_data) = 8 ->
                  /\ ValueOk
                  /\ value_res.value.asn =
                         << BE16(value_data[1], value_data[2]),
                            BE16(value_data[3], value_data[4]) >>
                  /\ value_res.value.ip = SubSeq(value_data, 5, 8)
             [] Len(value_data) = 6 ->
                  /\ ValueOk
                  /\ value_res.value.asn =
                         << 0, BE16(value_data[1], value_data[2]) >>
                  /\ value_res.value.ip = SubSeq(value_data, 3, 6)
             [] OTHER -> ValueErr("AttributeLengthErr")

\* a 6-byte Aggregator with a non-zero 2-byte ASN was decoded
C8_Witness ==
    /\ ValueDecoded("Aggregator")
    /\ Len(value_data) = 6
    /\ ValueOk
    /\ value_res.value.asn[2] # 0
    /\ value_res.value.ip # <<0, 0, 0, 0>>

\* C9: a Communities value whose length is not a multiple of 4 yields
\* OptionalAttributeError without any community being read; one whose
\* length is a multiple of 4 yields length/4 (asn, value) pairs in wire
\* order.
C9_CommunitiesAligned ==
    ValueDecoded("Communities")
        => IF Len(value_data) % 4 # 0
           THEN /\ ValueErr("OptionalAttributeError")
                /\ value_res.rest = value_data
           ELSE /\ ValueOk
                /\ Len(value_res.value.communities) = Len(value_data) \div 4
                /\ \A i \in 1..(Len(value_data) \div 4) :
                       /\ value_res.value.communities[i].asn =
                              BE16(value_data[4 * i - 3], value_data[4 * i - 2])
                       /\ value_res.value.communities[i].value =
                              BE16(value_data[4 * i - 1], value_data[4 * i])

\* a misaligned Communities value long enough to hold a whole community
\* was rejected with nothing read
C9_Witness ==
    /\ ValueDecoded("Communities")
    /\ Len(value_data) > 4
    /\ Len(value_data) % 4 # 0
    /\ ValueErr("OptionalAttributeError")
    /\ value_res.rest = value_data

\* C10: an attribute whose type code is not in 1..8 and whose declared
\* length fits the buffer always decodes, to type Unknown(code) and the
\* declared-length bytes verbatim.
C10_UnknownVerbatim ==
    (AttrCalled /\ Len(attr_in) >= 2 /\ attr_in[2] \notin 1..8 /\ InFits)
        => \/ pc = "value" /\ result.tag = "none"
           \/ /\ ValueOk
              /\ (result.tag \in {"none", "ok"}
                      \/ result.site \notin {"attrs", "value"})
              /\ path_attributes # << >>
              /\ Last(path_attributes).type_code =
                     [name |-> "Unknown", code |-> attr_in[2]]
              /\ Last(path_attributes).value =
                     [variant |-> "Unknown", bytes |-> InValue]
              /\ Last(path_attributes).flags.extended_length = InExtended

\* an unknown type with a 2-byte extended length and a non-empty value
\* was decoded
C10_Witness ==
    /\ AttrCalled
    /\ InExtended
    /\ InFits
    /\ attr_in[2] = 153
    /\ InDeclared >= 2
    /\ ValueOk
    /\ Last(path_attributes).value.bytes = InValue


\* the UPDATE body read off the wire layout
\* [u16 withdrawn_len][withdrawn][u16 attrs_len][attributes][nlri]
WireWithdrawnLen == BE16(input[1], input[2])
WireWithdrawnFits == Len(input) >= 2 /\ WireWithdrawnLen <= Len(input) - 2
WireAfterWithdrawn == Len(input) - 2 - WireWithdrawnLen
WireAttrsLen ==
    BE16(input[WireWithdrawnLen + 3], input[WireWithdrawnLen + 4])
WireAttrsFit ==
    /\ WireWithdrawnFits
    /\ WireAfterWithdrawn >= 2
    /\ WireAttrsLen <= WireAfterWithdrawn - 2
WireWithdrawn == SubSeq(input, 3, 2 + WireWithdrawnLen)
WireAttrs ==
    SubSeq(input, WireWithdrawnLen + 5, WireWithdrawnLen + 4 + WireAttrsLen)
WireNlri == SubSeq(input, WireWithdrawnLen + 5 + WireAttrsLen, Len(input))

\* the call is past its entry step / past the withdrawn block
PastStart == pc # "start"
PastWithdrawn ==
    /\ pc \notin {"start", "withdrawn"}
    /\ result.site # "withdrawn"
PastAttrsLen == PastWithdrawn /\ pc # "attrs_len"

\* Err(kind) without diagnostic data, raised at `site`
BareError(kind, site) ==
    result = [tag |-> "err", err |-> [kind |-> kind, data |-> None],
              site |-> site]

\* C11: the top-level length failures: fewer than 2 bytes at entry yields
\* BadMessageLength; a nonzero withdrawn_len exceeding the remaining bytes,
\* fewer than 2 bytes left for attrs_len, and attrs_len exceeding the
\* remaining bytes each yield MalformedAttributeList; none carries data.
C11_TopLevelLengths ==
    /\ (PastStart /\ Len(input) < 2) => BareError("BadMessageLength", "start")
    /\ (PastStart /\ Len(input) >= 2 /\ ~WireWithdrawnFits)
           => BareError("MalformedAttributeList", "start")
    /\ (PastAttrsLen /\ WireWithdrawnFits /\ WireAfterWithdrawn < 2)
           => BareError("MalformedAttributeList", "attrs_len")
    /\ (PastAttrsLen /\ WireWithdrawnFits /\ WireAfterWithdrawn >= 2
            /\ ~WireAttrsFit)
           => BareError("MalformedAttributeList", "attrs_len")
    /\ (result.tag # "none" /\ result.site = "start")
           => Len(input) < 2 \/ ~WireWithdrawnFits
    /\ (result.tag # "none" /\ result.site = "attrs_len") => ~WireAttrsFit

\* the withdrawn block decoded and attrs_len then exceeded what was left
C11_Witness ==
    /\ WireWithdrawnFits
    /\ WireWithdrawnLen > 0
    /\ WireAfterWithdrawn >= 2
    /\ ~WireAttrsFit
    /\ BareError("MalformedAttributeList", "attrs_len")


\* the number of wire bytes of a sequence of prefix entries:
\* [u8 bit_length][ceil(bit_length / 8) bytes] each
RECURSIVE PrefixesWireSize(_)
PrefixesWireSize(ps) ==
    IF ps = << >> THEN 0
    ELSE 1 + ((Head(ps).length + 7) \div 8) + PrefixesWireSize(Tail(ps))

\* C12: whenever UpdateMessage::try_decode returns success, the caller's
\* buffer is consumed to zero remaining bytes: every byte after the
\* attribute block was decoded as an NLRI prefix entry.
C12_FullyConsumed ==
    result.tag = "ok"
        => /\ data = << >>
           /\ WireAttrsFit
           /\ PrefixesWireSize(nlri) = Len(WireNlri)

\* a body with attributes and at least two NLRI entries was decoded
C12_Witness ==
    /\ result.tag = "ok"
    /\ WireAttrsLen > 0
    /\ Len(nlri) >= 2
    /\ Len(WireNlri) >= 3
    /\ data = << >>


\* the prefix entries of a well-formed block, read off the wire layout
RECURSIVE WirePrefixEntries(_)
WirePrefixEntries(block) ==
    IF block = << >> THEN << >>
    ELSE LET n == (block[1] + 7) \div 8
         IN  IF n > Len(block) - 1 THEN << >>
             ELSE << [length |-> block[1], bytes |-> SubSeq(block, 2, 1 + n)] >>
                      \o WirePrefixEntries(SubSeq(block, 2 + n, Len(block)))

\* the TLV records of a well-formed attribute block, read off the wire
\* layout
RECURSIVE WireRecords(_)
WireRecords(block) ==
    IF Len(block) < 3 THEN << >>
    ELSE LET ext == (block[1] \div 16) % 2 = 1
             sz == IF ext THEN 2 ELSE 1
         IN  IF Len(block) < 2 + sz THEN << >>
             ELSE LET n == IF ext THEN BE16(block[3], block[4]) ELSE block[3]
                  IN  IF n > Len(block) - 2 - sz THEN << >>
                      ELSE << [code |-> block[2], extended |-> ext,
                               value |-> SubSeq(block, 3 + sz, 2 + sz + n)] >>
                               \o WireRecords(SubSeq(block, 3 + sz + n, Len(block)))

\* decoded prefixes ps are the entries es, one for one and in order: same
\* bit length, and the whole bytes of the address verbatim
PrefixesMatch(ps, es) ==
    /\ Len(ps) = Len(es)
    /\ \A i \in 1..Len(es) :
           /\ ps[i].length = es[i].length
           /\ \A j \in 1..(es[i].length \div 8) : ps[i].prefix[j] = es[i].bytes[j]

\* decoded attributes as are the records rs, one for one and in order
AttributesMatch(as, rs) ==
    /\ Len(as) = Len(rs)
    /\ \A i \in 1..Len(rs) :
           /\ as[i].type_code.code = rs[i].code
           /\ as[i].flags.extended_length = rs[i].extended
           /\ as[i].type_code.name = "Unknown" => as[i].value.bytes = rs[i].value

\* C13: for a well-formed UPDATE body try_decode returns withdrawn_routes
\* with one prefix per entry of the withdrawn region, path_attributes with
\* one attribute per TLV record, nlri with one prefix per entry of the
\* remaining bytes, each in wire order; an empty region gives an empty
\* sequence.
C13_RegionsInOrder ==
    result.tag = "ok"
        => /\ PrefixesMatch(withdrawn_routes, WirePrefixEntries(WireWithdrawn))
           /\ AttributesMatch(path_attributes, WireRecords(WireAttrs))
           /\ PrefixesMatch(nlri, WirePrefixEntries(WireNlri))
           /\ WireWithdrawnLen = 0 => withdrawn_routes = << >>
           /\ WireAttrsLen = 0 => path_attributes = << >>
           /\ WireNlri = << >> => nlri = << >>

\* the body of test_full_update_message was decoded: two withdrawn
\* routes, four attributes, one NLRI entry
C13_Witness ==
    /\ result.tag = "ok"
    /\ Len(withdrawn_routes) = 2
    /\ withdrawn_routes[1] = [length |-> 8, prefix |-> <<10, 0, 0, 0>>]
    /\ withdrawn_routes[2] = [length |-> 16, prefix |-> <<192, 168, 0, 0>>]
    /\ Len(path_attributes) = 4
    /\ path_attributes[1].type_code.name = "Origin"
    /\ path_attributes[4].type_code.name = "LocalPref"
    /\ nlri = << [length |-> 16, prefix |-> <<172, 16, 0, 0>>] >>


\* the kinds whose Error keeps the bytes
CarryingKinds ==
    {"AttributeLengthErr", "MalformedAsPath", "InvalidOrigin",
     "OptionalAttributeError"}

\* C14: with_bytes(kind, buf) returns an Error whose data is buf exactly
\* when kind is AttributeLengthErr, MalformedAsPath, InvalidOrigin or
\* OptionalAttributeError, and is absent for every other kind; as_err
\* returns an Error with absent data for every kind; both keep the kind.
C14_ErrorConstructors ==
    /\ ek.op # "none" => ek_out.kind = ek.kind
    /\ ek.op = "with_bytes"
           => /\ ek_out.data.some <=> ek.kind \in CarryingKinds
              /\ ek_out.data.some => ek_out.data.bytes = ek.bytes
              /\ ~ek_out.data.some => ek_out.data = None
    /\ ek.op = "as_err" => ek_out.data = None

\* with_bytes was called on InvalidOrigin with a non-empty buffer and
\* kept it
C14_Witness ==
    /\ ek.op = "with_bytes"
    /\ ek.kind = "InvalidOrigin"
    /\ ek.bytes # << >>
    /\ ek_out = [kind |-> "InvalidOrigin", data |-> Some(ek.bytes)]


\* decode_stream returned Err
StreamFailed ==
    /\ result.tag = "err"
    /\ result.site \in {"withdrawn", "nlri"}

\* C15 as stated: when decode_stream fails, the Error has kind
\* InvalidNetworkField and carries as data the remaining buffer as it
\* stood at the start of the loop iteration that failed.
C15_StreamErrCarriesIterData ==
    StreamFailed
        => /\ result.err.kind = "InvalidNetworkField"
           /\ result.err.data = Some(iter_data)

\* C15 as amended: when decode_stream fails, the Error has kind
\* InvalidNetworkField and carries no data: it is the value built at the
\* entry of decode_stream, and with_bytes drops the bytes for this kind.
C15_StreamErrBare ==
    StreamFailed
        => /\ result.err.kind = "InvalidNetworkField"
           /\ result.err.data = None
           /\ result.err = stream_err

\* decode_stream failed on the withdrawn block in a later iteration than
\* the first, with bytes still undecoded
C15_Witness ==
    /\ StreamFailed
    /\ result.site = "withdrawn"
    /\ prefixes # << >>
    /\ Len(iter_data) >= 2
    /\ Len(iter_data) < Len(WireWithdrawn)
    /\ result.err.data = None


\* the attribute loop is running or the call ended inside it
InAttributeLoop ==
    \/ pc \in {"attrs", "value"}
    \/ result.site \in {"attrs", "value"}

\* C16: when the attribute block is not exactly tiled by TLV records (the
\* last record is cut short, leaving bytes that cannot hold flags, type
\* and length, or a declared length runs past the end of the block),
\* try_decode fails with AttributeLengthErr raised by
\* PathAttribute::try_decode, and no record takes bytes from the NLRI
\* region behind the block.
C16_CutShortRejected ==
    /\ (AttrCalled /\ (InLenUnreadable \/ InOverrun))
           => /\ result.tag = "err"
              /\ result.site = "attrs"
              /\ result.err.kind = "AttributeLengthErr"
    /\ InAttributeLoop => WireAttrsFit /\ data = WireNlri


\* C17: when a value grammar fails inside PathAttribute::try_decode, the
\* returned Error keeps the grammar's ErrorKind and its data is the
\* snapshot taken at call entry, never the narrower value slice.
C17_GrammarErrRewrapped ==
    /\ value_res.tag = "err"
           => /\ result.tag = "err"
              /\ result.site = "value"
              /\ result.err.kind = value_res.kind
              /\ result.err.kind \in CarryingKinds
              /\ result.err.data = Some(attr_in)
              /\ Len(attr_in) >= Len(value_data) + 3
    /\ (result.tag = "err" /\ result.site = "value") => value_res.tag = "err"

\* a MalformedAsPath raised on a non-empty value slice was returned with
\* the whole record as data
C17_Witness ==
    /\ value_res.tag = "err"
    /\ value_res.kind = "MalformedAsPath"
    /\ value_data # << >>
    /\ result.err = [kind |-> "MalformedAsPath", data |-> Some(attr_in)]
    /\ attr_in # value_data

\* every iteration of the segment loop over d that returns leaves fewer
\* bytes than it found
RECURSIVE AsPathDecreases(_)
AsPathDecreases(d) ==
    \/ d = << >>
    \/ LET s == AsPath_segment(d)
       IN  /\ Len(s.rest) < Len(d)
           /\ s.tag = "ok" => AsPathDecreases(s.rest)

\* the same for the communities loop
RECURSIVE CommunitiesDecrease(_)
CommunitiesDecrease(d) ==
    \/ d = << >>
    \/ LET s == Communities_step(d)
       IN  s.tag = "ok" => /\ Len(s.rest) < Len(d)
                           /\ CommunitiesDecrease(s.rest)

\* the step just taken was an iteration of a prefix loop or of the
\* attribute loop, and its buffer got shorter
LoopStepDecreases ==
    /\ (pc = "withdrawn" /\ ~StreamFinished(withdrawn_data))
           => Len(withdrawn_data') < Len(withdrawn_data)
    /\ (pc = "nlri" /\ ~StreamFinished(data)) => Len(data') < Len(data)
    /\ (pc = "attrs" /\ attributes_data # << >>)
           => Len(attributes_data') < Len(attributes_data)

\* no loop has run more iterations than its buffer had bytes
IterationsBounded ==
    /\ pc = "withdrawn"
           => Len(prefixes) + Len(withdrawn_data) <= WireWithdrawnLen
    /\ pc = "nlri" => Len(prefixes) + Len(data) <= Len(WireNlri)
    /\ pc \in {"attrs", "value"}
           => Len(path_attributes) + Len(attributes_data) < WireAttrsLen + 1
    /\ ValueDecoded("AsPath")
           => /\ AsPathDecreases(value_data)
              /\ ValueOk => Len(value_res.value.segments) <= Len(value_data)
    /\ ValueDecoded("Communities")
           => /\ CommunitiesDecrease(value_data)
              /\ ValueOk
                     => Len(value_res.value.communities) <= Len(value_data)

\* C18: every call of UpdateMessage::try_decode ends (by a return or by an
\* abort); each iteration of the prefix loops, of the attribute loop, of
\* the AS_PATH segment loop and of the communities loop leaves strictly
\* fewer bytes in its buffer, so no loop runs more iterations than the
\* buffer has bytes.
C18_Terminates ==
    /\ <>(pc = "done")
    /\ [][LoopStepDecreases]_vars
    /\ []IterationsBounded

\* a call returned Ok after its NLRI loop, its attribute loop and the
\* segment loop of an AS_PATH had each run
C18_Witness ==
    /\ pc = "done"
    /\ result.tag = "ok"
    /\ nlri # << >>
    /\ \E i \in 1..Len(path_attributes) :
           /\ path_attributes[i].value.variant = "AsPath"
           /\ path_attributes[i].value.segments # << >>

====
